---- MODULE Spec2Model ----
(***************************************************************************)
(* Brahmastra-Coder: the sandboxed file tool layer (agents/tools.py), the  *)
(* Planner -> Architect -> Coder graph (agents/graph.py) and the           *)
(* cross-thread event relay of the Socket.IO server (api/server.py).       *)
(*                                                                         *)
(* A path is a sequence of components; the filesystem is the set of        *)
(* directories and a function from file paths to contents, both keyed by   *)
(* canonical absolute paths.  The process runs with cwd "/", so            *)
(* PROJECT_ROOT is /generated_project, written <<"gp">>.  The model has no *)
(* symbolic links.                                                         *)
(*                                                                         *)
(* Specifications:                                                         *)
(*   SpecTools  read_file, write_file and list_files called with arbitrary *)
(*              path arguments, at most MaxOps calls.                      *)
(*   Spec       one run: generate, the worker thread walking the graph,    *)
(*              the poller and the run task on the event loop.  Time       *)
(*              shows only in the grace sleep, which lasts GraceTicks poll *)
(*              intervals; in each the poller makes a pass or is held up.  *)
(*   FairSpec   Spec with the event loop, the worker and the provider      *)
(*              making progress.                                           *)
(*   SpecBurst  a run in which the poller is never held up and the         *)
(*              sub-calls may write GraceTicks + 1 times.                  *)
(*   SpecInvoke safe_invoke applied to calls that return or raise.         *)
(*   SpecEndpoints  the REST file endpoints called with arbitrary paths,   *)
(*              at most MaxOps requests.                                   *)
(*   SpecHook   the graph invoked without the server, with no hook or with *)
(*              a hook that raises.                                        *)
(*   SpecRuns   two generate requests, each with its queue, poller, run    *)
(*              task and worker, sharing the hook slot and the sandbox.    *)
(*   SpecFallback  the fallback server (src/api/server.py): one run        *)
(*              between a scan before and a scan after, with REST deletes. *)
(***************************************************************************)
EXTENDS Integers, Sequences, FiniteSets, TLC

VARIABLES
    dirs,                     \* directories of the filesystem (canonical paths)
    files,                    \* regular files: canonical path -> content
    file_operation_callback,  \* tools._file_operation_callback: "None" or the hook
    file_op_queue,            \* server: file_op_queue of the run
    last_call,                \* the last tool call and its outcome
    ops,                      \* number of tool calls made (tool-layer specification)
    stop_requested,           \* what tools._should_stop_callback() returns
    node,                     \* the graph node the worker thread is at
    plan,                     \* RunState.plan
    task_plan,                \* RunState.task_plan: the steps' file paths
    coder_state,              \* RunState.coder_state
    status,                   \* RunState.status
    coder_pc,                 \* where the worker is inside coder_agent
    exc,                      \* the exception agent.invoke raised
    monitoring_active,        \* server: monitoring_active
    monitor_task,             \* server: the queue_monitor task
    run_pc,                   \* where run_agent_with_monitoring is
    grace,                    \* poll intervals left of asyncio.sleep(0.5)
    emitted,                  \* the outbound messages, in emission order
    enqueued,                 \* history: every event put on file_op_queue
    written,                  \* history: the worker's successful writes
    activations,              \* history: number of Coder activations
    stop_observed,            \* history: should_stop() returned True
    tool_calls,               \* history: write calls made by the sub-calls
    trace,                    \* history: the provider requests and the Coder's reads
    faults,                   \* history: the provider calls that hit a rate limit or came back empty
    invoked,                  \* the last safe_invoke call and what it surfaced
    runs,                     \* server: the locals of each generate request's run
    initial_files,            \* fallback server: the snapshot taken before the run
    current_files,            \* fallback server: what the rescan after the run saw
    mtime,                    \* st_mtime of the files the fallback server scans
    clock,                    \* the time that modification times are taken from
    fallback_pc               \* where the fallback server's run task is

toolVars == <<dirs, files, file_operation_callback, file_op_queue, last_call, ops>>

graphVars == <<stop_requested, node, plan, task_plan, coder_state, status, coder_pc, exc>>

relayVars == <<monitoring_active, monitor_task, run_pc, grace, emitted>>

historyVars == <<enqueued, written, activations, stop_observed, tool_calls>>

logVars == <<trace, faults>>

callVars == <<invoked>>

runVars == <<runs>>

fallbackVars == <<initial_files, current_files, mtime, clock, fallback_pc>>

vars == <<toolVars, graphVars, relayVars, historyVars, logVars, callVars, runVars,
          fallbackVars>>

\* ---------------------------------------------------------------- bounds
MaxOps == 3

MaxSteps == 2

MaxWrites == 3

MaxClock == 1

\* server.py:180 sleeps 0.5 s; the poller wakes every 0.1 s (server.py:152-154)
GraceTicks == 5

\* ---------------------------------------------------------------- paths
None == "None"

PROJECT_ROOT == <<"gp">>

\* file contents are texts; "CR" and "LF" are the two line-ending characters
PlainText == <<"x">>

CrLfText == <<"x", "CR", "LF", "y">>

Contents == {PlainText, CrLfText}

\* tools.py:49, a text-mode write: "LF" goes out as os.linesep, "LF" on POSIX
WriteText(content) == content

\* tools.py:77, a text-mode read: universal newlines turn "CR LF" and a lone "CR"
\* into "LF"
RECURSIVE ReadText(_)
ReadText(stored) ==
    IF Len(stored) = 0 THEN <<>>
    ELSE IF Head(stored) = "CR"
    THEN IF Len(stored) >= 2 /\ stored[2] = "LF"
         THEN <<"LF">> \o ReadText(SubSeq(stored, 3, Len(stored)))
         ELSE <<"LF">> \o ReadText(Tail(stored))
    ELSE <<Head(stored)>> \o ReadText(Tail(stored))

\* pathlib: the parent of a path ("/" is its own parent)
Parent(p) == IF Len(p) = 0 THEN p ELSE SubSeq(p, 1, Len(p) - 1)

\* pathlib: p.parents, every proper ancestor of p
Parents(p) == {SubSeq(p, 1, k) : k \in 0..(Len(p) - 1)}

\* p and every ancestor of p
Prefixes(p) == {SubSeq(p, 1, k) : k \in 0..Len(p)}

\* the kernel's view of a component sequence: "." is skipped, ".." pops
\* (and stays at "/"), anything else descends
RECURSIVE Canon(_, _)
Canon(stack, comps) ==
    IF Len(comps) = 0 THEN stack
    ELSE LET c == Head(comps)
             rest == Tail(comps)
         IN  IF c = "." THEN Canon(stack, rest)
             ELSE IF c = ".." THEN Canon(Parent(stack), rest)
             ELSE Canon(Append(stack, c), rest)

\* a join that clamps an absolute path under the root
JoinClamped(root, path) == root \o path.comps

\* pathlib: PROJECT_ROOT / path; an absolute right operand replaces the left
Join(root, path) == IF path.abs THEN path.comps ELSE root \o path.comps

\* a resolve() that forgets to canonicalize
ResolveLexical(q) == q

\* pathlib: Path.resolve()
Resolve(q) == Canon(<<>>, q)

\* the file a system call on path p reaches: the kernel walks p itself
Locate(p) == Canon(<<>>, p)

\* tools.py:36, the negation of the rejecting condition
Contained(p) ==
    ~ (PROJECT_ROOT \notin Parents(p) /\ PROJECT_ROOT # Parent(p) /\ PROJECT_ROOT # p)

\* safe_path_for_project: the resolved path, or the ValueError
safe_path_for_project(path) ==
    LET p == Resolve(Join(PROJECT_ROOT, path))
    IN  IF Contained(p) THEN [ok |-> TRUE, p |-> p]
        ELSE [ok |-> FALSE, p |-> p]

\* p.relative_to(PROJECT_ROOT)
RelativeTo(p) == SubSeq(p, Len(PROJECT_ROOT) + 1, Len(p))

\* ---------------------------------------------------------------- filesystem
Exists(p, d, f) == p \in d \/ p \in DOMAIN f

\* Path.mkdir(parents=True, exist_ok=True) succeeds unless the directory or one
\* of its ancestors is a regular file; nothing is created when it fails
MkdirOk(p, f) == \A q \in Prefixes(p) : q \notin DOMAIN f

\* the path arguments tool calls are made with
PathArgs ==
    { [abs |-> FALSE, comps |-> <<>>],
      [abs |-> FALSE, comps |-> <<".">>],
      [abs |-> FALSE, comps |-> <<"a">>],
      [abs |-> FALSE, comps |-> <<"a", "b">>],
      [abs |-> FALSE, comps |-> <<"b", "c", "a">>],
      [abs |-> FALSE, comps |-> <<"..">>],
      [abs |-> FALSE, comps |-> <<"..", "out">>],
      [abs |-> FALSE, comps |-> <<"..", "gp", "a">>],
      [abs |-> FALSE, comps |-> <<"a", "..", "..", "out">>],
      [abs |-> FALSE, comps |-> <<"..", "gpx", "a">>],
      [abs |-> TRUE,  comps |-> <<"out">>],
      [abs |-> TRUE,  comps |-> <<"gp", "a">>] }

NoPath == [abs |-> FALSE, comps |-> <<>>]

\* ---------------------------------------------------------------- events
Event(kind, rel) == [kind |-> kind, path |-> rel]

\* an operation type that ignores what was there before
OperationTypeAlwaysCreate(file_existed) == "file_create"

\* tools.py:54
OperationType(file_existed) == IF file_existed THEN "file_update" ELSE "file_create"

\* server.py:119-125, file_op_callback: enqueue the (kind, path) pair
file_op_callback(q, operation_type, filepath) == Append(q, Event(operation_type, filepath))

\* tools.py:14-17: a hook registered by a caller other than the server, which
\* raises whenever it is called
RaisingHook == "raising_hook"

\* tools.py:61, the call of the registered hook: the server's hook enqueues,
\* the raising hook raises and enqueues nothing
call_hook(h, q, operation_type, filepath) ==
    IF h = RaisingHook
    THEN [raised |-> "RuntimeError", queue |-> q]
    ELSE [raised |-> None, queue |-> file_op_callback(q, operation_type, filepath)]

\* a write that lets the hook's exception out
hook_failure_propagates(e) == e

\* tools.py:60-64, the try around the hook call: the exception is printed
hook_failure(e) == None

\* ---------------------------------------------------------------- tool calls
\* The outcome of write_file(path, content) on filesystem (d, f) with hook h
\* and queue q: the new filesystem and queue, and what the caller sees.
write_file(path, content, d, f, h, q) ==
    LET sp == safe_path_for_project(path)
        p == Locate(sp.p)
        file_existed == Exists(p, d, f)
        unchanged(err) == [ok |-> FALSE, err |-> err, dirs |-> d, files |-> f,
                           queue |-> q, existed |-> file_existed, notified |-> FALSE,
                           same |-> FALSE]
    IN  IF ~ sp.ok THEN unchanged("ValueError")
        ELSE IF ~ MkdirOk(Parent(p), f) THEN unchanged("OSError")
        ELSE IF p \in d THEN unchanged("IsADirectoryError")
        ELSE LET hooked == IF h # None
                           THEN call_hook(h, q, OperationType(file_existed), RelativeTo(p))
                           ELSE [raised |-> None, queue |-> q]
                 err == hook_failure(hooked.raised)
             IN
             [ok |-> err = None, err |-> err,
              dirs |-> d \cup Prefixes(Parent(p)),
              files |-> [x \in (DOMAIN f) \cup {p} |-> IF x = p THEN WriteText(content) ELSE f[x]],
              queue |-> hooked.queue,
              existed |-> file_existed,
              notified |-> h # None,
              same |-> p \in DOMAIN f /\ f[p] = WriteText(content)]

\* read_file(path): the content, the empty text for a missing file, or the error
read_file(path, d, f) ==
    LET sp == safe_path_for_project(path)
        p == Locate(sp.p)
    IN  IF ~ sp.ok THEN [ok |-> FALSE, err |-> "ValueError", ret |-> <<>>]
        ELSE IF ~ Exists(p, d, f) THEN [ok |-> TRUE, err |-> None, ret |-> <<>>]
        ELSE IF p \in d THEN [ok |-> FALSE, err |-> "IsADirectoryError", ret |-> <<>>]
        ELSE [ok |-> TRUE, err |-> None, ret |-> ReadText(f[p])]

\* list_files(directory): the relative paths of the files below it
list_files(path, d, f) ==
    LET sp == safe_path_for_project(path)
        p == Locate(sp.p)
    IN  IF ~ sp.ok THEN [ok |-> FALSE, err |-> "ValueError", listing |-> {}]
        ELSE IF p \notin d THEN [ok |-> TRUE, err |-> "ERROR", listing |-> {}]
        ELSE [ok |-> TRUE, err |-> None,
              listing |-> {RelativeTo(x) : x \in {y \in DOMAIN f : p \in Prefixes(y)}}]

Call(op, path, content, ok, err, ret, existed, notified, same) ==
    [op |-> op, path |-> path, content |-> content, ok |-> ok, err |-> err,
     ret |-> ret, existed |-> existed, notified |-> notified, same |-> same]

NoCall == Call("none", NoPath, <<>>, TRUE, None, <<>>, FALSE, FALSE, FALSE)

\* ---------------------------------------------------------------- safe_invoke
\* a text is a sequence of characters
RateLimitNeedle == <<"r", "a", "t", "e", " ", "l", "i", "m", "i", "t">>

\* the upper-case form of the letters of the needle
UpperCase ==
    [c \in {"r", "a", "t", "e", " ", "l", "i", "m"} |->
        CASE c = "r" -> "R" [] c = "a" -> "A" [] c = "t" -> "T" [] c = "e" -> "E"
          [] c = "l" -> "L" [] c = "i" -> "I" [] c = "m" -> "M" [] c = " " -> " "]

\* a lower() that leaves the text as it is
LowerKeepsCase(c) == c

\* str.lower() on one character
Lower(c) ==
    IF \E l \in DOMAIN UpperCase : UpperCase[l] = c
    THEN CHOOSE l \in DOMAIN UpperCase : UpperCase[l] = c
    ELSE c

\* graph.py:37, str(e).lower()
LowerText(text) == [i \in 1..Len(text) |-> Lower(text[i])]

\* needle in hay
Contains(needle, hay) ==
    \E i \in 0..(Len(hay) - Len(needle)) : SubSeq(hay, i + 1, i + Len(needle)) = needle

\* a callee that returns value, and one that raises type(text)
Returns(value) == [raises |-> FALSE, type |-> None, text |-> <<>>, value |-> value]

Raises(type, text) == [raises |-> TRUE, type |-> type, text |-> text, value |-> None]

\* graph.py:31-42, safe_invoke: what the call surfaces as
safe_invoke(call) ==
    IF ~ call.raises
    THEN [raised |-> None, text |-> <<>>, value |-> call.value]
    ELSE IF Contains(RateLimitNeedle, LowerText(call.text))
    THEN [raised |-> "RateLimitExceeded", text |-> call.text, value |-> None]
    ELSE [raised |-> call.type, text |-> call.text, value |-> None]

\* the texts of the exceptions the wrapped call raises
TextHeads == {<<>>, <<"x", " ">>, <<"4", "2", "9", ":", " ">>}

TextCores ==
    { <<"r", "a", "t", "e", " ", "l", "i", "m", "i", "t">>,
      <<"R", "a", "t", "e", " ", "l", "i", "m", "i", "t">>,
      <<"R", "A", "T", "E", " ", "L", "I", "M", "I", "T">>,
      <<"r", "A", "t", "E", " ", "L", "i", "M", "i", "T">>,
      <<"r", "a", "t", "e", "l", "i", "m", "i", "t">>,
      <<"r", "a", "t", "e", " ", " ", "l", "i", "m", "i", "t">>,
      <<"r", "a", "t", "e", "_", "l", "i", "m", "i", "t">>,
      <<"r", "a", "t", "e", " ", "l", "i", "m", "i">>,
      <<"t", "i", "m", "e", "o", "u", "t">>,
      <<>> }

TextTails == {<<>>, <<"t">>, <<" ", "h", "i", "t">>}

ErrorTexts == {h \o c \o t : h \in TextHeads, c \in TextCores, t \in TextTails}

\* the calls safe_invoke is given
Calls ==
    {Returns(v) : v \in {"resp", "plan", None}}
        \cup {Raises(ty, tx) : ty \in {"APIError", "ValueError"}, tx \in ErrorTexts}

Invocation(call, result) == [call |-> call, result |-> result]

NoInvocation == Invocation(Returns(None), safe_invoke(Returns(None)))

\* ---------------------------------------------------------------- tool layer
\* The filesystem after init_project_root(): the root exists; a file outside
\* it exists; a file from an earlier run may be there.
OutsideFiles == (<<"out">> :> <<"s">>)

\* a CoderState that starts one step in
CoderStateAtOne(idx) == [created |-> TRUE, current_step_idx |-> idx + 1]

\* states.py, CoderState; the RunState of a run has none until the Coder makes it
CoderState(idx) == [created |-> TRUE, current_step_idx |-> idx]

NoCoderState == [created |-> FALSE, current_step_idx |-> 0]

\* the clients that may send a generate request
RunIds == {1, 2}

\* server.py:115-116, 131, 227: the locals of one generate request
Run(pc, flag, task, queue, out) ==
    [pc |-> pc, monitoring_active |-> flag, monitor_task |-> task, file_op_queue |-> queue,
     emitted |-> out]

NoRun == Run("idle", FALSE, "none", <<>>, <<>>)

\* a dict with no key
EmptyMap == [p \in {} |-> 0]

\* no run has been started
RunIdle ==
    /\ stop_requested = FALSE
    /\ node = "idle"
    /\ plan = None
    /\ task_plan = <<>>
    /\ coder_state = NoCoderState
    /\ status = None
    /\ coder_pc = "enter"
    /\ exc = None
    /\ monitoring_active = FALSE
    /\ monitor_task = "none"
    /\ run_pc = "idle"
    /\ grace = 0
    /\ emitted = <<>>
    /\ enqueued = <<>>
    /\ written = <<>>
    /\ activations = 0
    /\ stop_observed = FALSE
    /\ tool_calls = 0
    /\ trace = <<>>
    /\ faults = {}
    /\ invoked = NoInvocation
    /\ runs = [r \in RunIds |-> NoRun]
    /\ initial_files = EmptyMap
    /\ current_files = EmptyMap
    /\ clock = 0
    /\ fallback_pc = "idle"

ToolsInit ==
    /\ dirs = {<<>>, PROJECT_ROOT}
    /\ files \in {OutsideFiles, OutsideFiles @@ (<<"gp", "a">> :> PlainText)}
    /\ file_operation_callback \in {None, "file_op_callback"}
    /\ file_op_queue = <<>>
    /\ last_call = NoCall
    /\ ops = 0
    /\ mtime = EmptyMap
    /\ RunIdle

ToolWrite ==
    /\ ops < MaxOps
    /\ \E path \in PathArgs, content \in Contents :
         LET r == write_file(path, content, dirs, files, file_operation_callback,
                             file_op_queue)
         IN  /\ dirs' = r.dirs
             /\ files' = r.files
             /\ file_op_queue' = r.queue
             /\ last_call' = Call("write", path, content, r.ok, r.err,
                                  IF r.ok THEN <<"WROTE">> ELSE <<>>, r.existed, r.notified,
                                  r.same)
    /\ ops' = ops + 1
    /\ UNCHANGED <<file_operation_callback, graphVars, relayVars, historyVars>>
    /\ UNCHANGED <<logVars, callVars>>
    /\ UNCHANGED <<runVars, fallbackVars>>

ToolRead ==
    /\ ops < MaxOps
    /\ \E path \in PathArgs :
         LET r == read_file(path, dirs, files)
         IN  last_call' = Call("read", path, <<>>, r.ok, r.err, r.ret, FALSE, FALSE, FALSE)
    /\ ops' = ops + 1
    /\ UNCHANGED <<dirs, files, file_operation_callback, file_op_queue>>
    /\ UNCHANGED <<graphVars, relayVars, historyVars>>
    /\ UNCHANGED <<logVars, callVars>>
    /\ UNCHANGED <<runVars, fallbackVars>>

ToolList ==
    /\ ops < MaxOps
    /\ \E path \in PathArgs :
         LET r == list_files(path, dirs, files)
         IN  last_call' = Call("list", path, <<>>, r.ok, r.err, <<>>, FALSE, FALSE, FALSE)
    /\ ops' = ops + 1
    /\ UNCHANGED <<dirs, files, file_operation_callback, file_op_queue>>
    /\ UNCHANGED <<graphVars, relayVars, historyVars>>
    /\ UNCHANGED <<logVars, callVars>>
    /\ UNCHANGED <<runVars, fallbackVars>>

ToolsNext == ToolWrite \/ ToolRead \/ ToolList

SpecTools == ToolsInit /\ [][ToolsNext]_vars

\* ---------------------------------------------------------------- safe_invoke, alone
\* safe_invoke applied to every call of Calls
InvokeInit ==
    /\ dirs = {<<>>, PROJECT_ROOT}
    /\ files = OutsideFiles
    /\ file_operation_callback = None
    /\ file_op_queue = <<>>
    /\ last_call = NoCall
    /\ ops = 0
    /\ mtime = EmptyMap
    /\ RunIdle

Invoke ==
    /\ \E call \in Calls : invoked' = Invocation(call, safe_invoke(call))
    /\ UNCHANGED <<toolVars, graphVars, relayVars, historyVars, logVars>>
    /\ UNCHANGED <<runVars, fallbackVars>>

SpecInvoke == InvokeInit /\ [][Invoke]_vars

\* ---------------------------------------------------------------- REST endpoints
\* the characters of a component name
NameChars(name) ==
    CASE name = "gp" -> <<"g", "p">>
      [] name = "gpx" -> <<"g", "p", "x">>
      [] name = "out" -> <<"o", "u", "t">>
      [] OTHER -> <<name>>

\* str(path) of an absolute path
RECURSIVE PathString(_)
PathString(p) ==
    IF Len(p) = 0 THEN <<"/">>
    ELSE IF Len(p) = 1 THEN <<"/">> \o NameChars(p[1])
    ELSE PathString(Parent(p)) \o <<"/">> \o NameChars(p[Len(p)])

\* str.startswith
StartsWith(text, prefix) ==
    Len(text) >= Len(prefix) /\ SubSeq(text, 1, Len(prefix)) = prefix

\* server.py:308, 346 and 398: the endpoints' check of the requested path
EndpointAccepts(filepath) ==
    StartsWith(PathString(Resolve(Join(PROJECT_ROOT, filepath))),
               PathString(Resolve(PROJECT_ROOT)))

\* server.py:301-336, GET /api/file/{filepath}: the HTTP status and the content
api_read_file(filepath, d, f) ==
    LET p == Locate(Join(PROJECT_ROOT, filepath))
    IN  IF ~ EndpointAccepts(filepath) THEN [status |-> "403", content |-> <<>>]
        ELSE IF ~ Exists(p, d, f) THEN [status |-> "404", content |-> <<>>]
        ELSE IF p \notin DOMAIN f THEN [status |-> "400", content |-> <<>>]
        ELSE [status |-> "200", content |-> ReadText(f[p])]

\* server.py:339-362, DELETE /api/file/{filepath}: the HTTP status and the
\* files left
api_delete_file(filepath, d, f) ==
    LET p == Locate(Join(PROJECT_ROOT, filepath))
    IN  IF ~ EndpointAccepts(filepath) THEN [status |-> "403", files |-> f]
        ELSE IF ~ Exists(p, d, f) THEN [status |-> "404", files |-> f]
        ELSE IF p \in d THEN [status |-> "500", files |-> f]
        ELSE [status |-> "200", files |-> [x \in (DOMAIN f) \ {p} |-> f[x]]]

\* server.py:391-442, GET /api/preview/{filepath}
serve_preview_file(filepath, d, f) == api_read_file(filepath, d, f)

\* a sibling of the project root whose name begins with the root's name
SiblingFiles == (<<"gpx", "a">> :> <<"s">>)

EndpointsInit ==
    /\ \/ /\ dirs = {<<>>, PROJECT_ROOT}
          /\ files = OutsideFiles @@ (<<"gp", "a">> :> PlainText)
       \/ /\ dirs = {<<>>, PROJECT_ROOT, <<"gpx">>}
          /\ files = OutsideFiles @@ SiblingFiles @@ (<<"gp", "a">> :> CrLfText)
    /\ file_operation_callback = None
    /\ file_op_queue = <<>>
    /\ last_call = NoCall
    /\ ops = 0
    /\ mtime = EmptyMap
    /\ RunIdle

ApiReadFile ==
    /\ ops < MaxOps
    /\ \E path \in PathArgs :
         LET r == api_read_file(path, dirs, files)
         IN  last_call' = Call("api_read", path, <<>>, r.status = "200", r.status,
                               r.content, FALSE, FALSE, FALSE)
    /\ ops' = ops + 1
    /\ UNCHANGED <<dirs, files, file_operation_callback, file_op_queue>>
    /\ UNCHANGED <<graphVars, relayVars, historyVars, logVars, callVars>>
    /\ UNCHANGED <<runVars, fallbackVars>>

ApiDeleteFile ==
    /\ ops < MaxOps
    /\ \E path \in PathArgs :
         LET r == api_delete_file(path, dirs, files)
         IN  /\ files' = r.files
             /\ last_call' = Call("api_delete", path, <<>>, r.status = "200", r.status,
                                  <<>>, FALSE, FALSE, FALSE)
    /\ ops' = ops + 1
    /\ UNCHANGED <<dirs, file_operation_callback, file_op_queue>>
    /\ UNCHANGED <<graphVars, relayVars, historyVars, logVars, callVars>>
    /\ UNCHANGED <<runVars, fallbackVars>>

ApiPreview ==
    /\ ops < MaxOps
    /\ \E path \in PathArgs :
         LET r == serve_preview_file(path, dirs, files)
         IN  last_call' = Call("api_preview", path, <<>>, r.status = "200", r.status,
                               r.content, FALSE, FALSE, FALSE)
    /\ ops' = ops + 1
    /\ UNCHANGED <<dirs, files, file_operation_callback, file_op_queue>>
    /\ UNCHANGED <<graphVars, relayVars, historyVars, logVars, callVars>>
    /\ UNCHANGED <<runVars, fallbackVars>>

EndpointsNext == ApiReadFile \/ ApiDeleteFile \/ ApiPreview

SpecEndpoints == EndpointsInit /\ [][EndpointsNext]_vars

\* ---------------------------------------------------------------- messages
Msg(type, st, path) == [type |-> type, status |-> st, path |-> path]

LogMsg == Msg("log", "", <<>>)

StatusMsg(st) == Msg("status", st, <<>>)

ErrorMsg == Msg("error", "", <<>>)

\* server.py:142-149: the message of a drained (operation_type, filepath) item
FileMsg(item) == Msg(item.kind, "", item.path)

IsFileMsg(m) == m.type \in {"file_create", "file_update"}

IsTerminal(m) == m.type = "status"

\* ---------------------------------------------------------------- the graph
\* what the provider does with one structured-completion request
ProviderOutcomes == {"ok", "none", "rate_limit", "error"}

\* what the tool-using sub-call of a Coder step ends with
SubcallOutcomes == {"ok", "rate_limit", "error"}

\* the call safe_invoke wraps, for each thing the provider does: the value it
\* returns or the exception it raises, with the exception's text
ProviderCall(outcome) ==
    IF outcome = "ok" THEN Returns("resp")
    ELSE IF outcome = "none" THEN Returns(None)
    ELSE IF outcome = "rate_limit"
    THEN Raises("APIError", <<"R", "a", "t", "e", " ", "l", "i", "m", "i", "t", " ", "r", "e", "a", "c", "h", "e", "d">>)
    ELSE Raises("APIError", <<"t", "i", "m", "e", "o", "u", "t">>)

\* the file paths the Architect puts in its steps
StepPaths == { [abs |-> FALSE, comps |-> <<"a">>],
               [abs |-> FALSE, comps |-> <<"..", "out">>] }

\* the paths the sub-call's model writes to
AgentPaths == { [abs |-> FALSE, comps |-> <<"a">>],
                [abs |-> FALSE, comps |-> <<"b">>],
                [abs |-> FALSE, comps |-> <<"..", "out">>] }

BoundedSeq(S, n) == UNION {[1..k -> S] : k \in 0..n}

\* a stop check that never sees the signal
should_stop_never == FALSE

\* tools.py:26-31, should_stop
should_stop == stop_requested

\* a missing-response check that lets an empty response through
MissingResponseNever(value) == FALSE

\* graph.py:52 and 70, resp is None
MissingResponse(value) == value = None

\* an advance that skips a step
NextIdxSkipping(idx) == idx + 2

\* an advance that stays on the same step
NextIdxStuck(idx) == idx

\* graph.py:131
NextIdx(idx) == idx + 1

\* graph.py:85
AllTasksCompleted(idx, n) == idx >= n

\* a Coder that leaves the final check to its next activation
DoneAfterAdvanceNever(idx, n) == FALSE

\* graph.py:134
DoneAfterAdvance(idx, n) == idx >= n

\* a conditional edge that never leaves the Coder
EdgeAfterCoderLoops(st) == "coder"

\* graph.py:150-154, the conditional edge after the Coder node
EdgeAfterCoder(st) == IF st = "DONE" THEN "END" ELSE "coder"

\* what goes into the history of faults when a provider call surfaces as r
Fault(stage, kind) == [stage |-> stage, kind |-> kind]

FaultsOf(stage, r) ==
    IF r.raised = "RateLimitExceeded" THEN {Fault(stage, "rate_limit")}
    ELSE IF r.raised = None /\ r.value = None THEN {Fault(stage, "empty")}
    ELSE {}

\* one entry of the worker's log
Logged(who, step) == [who |-> who, step |-> step]

\* a status for a stopped run that differs from the one of a finished run
StatusOnStopCancelled == "CANCELLED"

\* graph.py:92, the status a stopped activation returns
StatusOnStop == "DONE"

\* a Planner that consults the stop signal and ends the run without a request
planner_agent_checks_stop ==
    /\ node = "planner"
    /\ IF stop_requested
       THEN /\ node' = "END"
            /\ UNCHANGED <<plan, exc, trace, faults>>
       ELSE /\ trace' = Append(trace, Logged("planner", 0))
            /\ faults' = faults
            /\ plan' = "Plan"
            /\ node' = "architect"
            /\ exc' = exc
    /\ UNCHANGED <<stop_requested, task_plan, coder_state, status, coder_pc>>
    /\ UNCHANGED <<toolVars, relayVars, historyVars>>
    /\ UNCHANGED callVars
    /\ UNCHANGED <<runVars, fallbackVars>>

\* graph.py:48-54, planner_agent
planner_agent ==
    /\ node = "planner"
    /\ trace' = Append(trace, Logged("planner", 0))
    /\ \E outcome \in ProviderOutcomes :
         LET r == safe_invoke(ProviderCall(outcome))
         IN  /\ faults' = faults \cup FaultsOf("planner", r)
             /\ IF r.raised # None
                THEN /\ exc' = r.raised
                     /\ node' = "raised"
                     /\ plan' = plan
                ELSE IF MissingResponse(r.value)
                THEN /\ exc' = "ValueError"
                     /\ node' = "raised"
                     /\ plan' = plan
                ELSE /\ plan' = "Plan"
                     /\ node' = "architect"
                     /\ exc' = exc
    /\ UNCHANGED <<stop_requested, task_plan, coder_state, status, coder_pc>>
    /\ UNCHANGED <<toolVars, relayVars, historyVars>>
    /\ UNCHANGED callVars
    /\ UNCHANGED <<runVars, fallbackVars>>

\* graph.py:60-72, architect_agent
architect_agent ==
    /\ node = "architect"
    /\ trace' = Append(trace, Logged("architect", 0))
    /\ \E outcome \in ProviderOutcomes :
         LET r == safe_invoke(ProviderCall(outcome))
         IN  /\ faults' = faults \cup FaultsOf("architect", r)
             /\ IF r.raised # None
                THEN /\ exc' = r.raised
                     /\ node' = "raised"
                     /\ task_plan' = task_plan
                ELSE IF MissingResponse(r.value)
                THEN /\ exc' = "ValueError"
                     /\ node' = "raised"
                     /\ task_plan' = task_plan
                ELSE /\ \E steps \in BoundedSeq(StepPaths, MaxSteps) : task_plan' = steps
                     /\ node' = "coder"
                     /\ exc' = exc
    /\ UNCHANGED <<stop_requested, plan, coder_state, status, coder_pc>>
    /\ UNCHANGED <<toolVars, relayVars, historyVars>>
    /\ UNCHANGED callVars
    /\ UNCHANGED <<runVars, fallbackVars>>

\* graph.py:80-112, coder_agent up to the sub-call: the terminal checks, the
\* read of the step's file and the start of the sub-call
coder_enter ==
    /\ node = "coder"
    /\ coder_pc = "enter"
    /\ activations' = activations + 1
    /\ LET cs == IF ~ coder_state.created THEN CoderState(0) ELSE coder_state
           steps == task_plan
           idx == cs.current_step_idx
       IN  IF AllTasksCompleted(idx, Len(steps))
           THEN /\ coder_state' = cs
                /\ status' = "DONE"
                /\ node' = EdgeAfterCoder("DONE")
                /\ UNCHANGED <<coder_pc, exc, stop_observed, trace>>
           ELSE IF should_stop
           THEN /\ coder_state' = cs
                /\ status' = StatusOnStop
                /\ node' = EdgeAfterCoder(StatusOnStop)
                /\ stop_observed' = TRUE
                /\ UNCHANGED <<coder_pc, exc, trace>>
           ELSE LET r == read_file(steps[idx + 1], dirs, files)
                IN  IF r.ok
                    THEN /\ coder_state' = cs
                         /\ coder_pc' = "react"
                         /\ trace' = trace \o <<Logged("read", idx), Logged("subcall", idx)>>
                         /\ UNCHANGED <<node, status, exc, stop_observed>>
                    ELSE /\ node' = "raised"
                         /\ exc' = r.err
                         /\ trace' = Append(trace, Logged("read", idx))
                         /\ UNCHANGED <<coder_state, coder_pc, status, stop_observed>>
    /\ UNCHANGED <<stop_requested, plan, task_plan>>
    /\ UNCHANGED <<toolVars, relayVars, enqueued, written, tool_calls>>
    /\ UNCHANGED <<faults, callVars>>
    /\ UNCHANGED <<runVars, fallbackVars>>

\* graph.py:112-125: one write_file call of the sub-call, on the worker thread;
\* a tool error goes back to the sub-call's model.  The run makes at most
\* budget such calls.
react_write(budget) ==
    /\ node = "coder"
    /\ coder_pc = "react"
    /\ tool_calls < budget
    /\ tool_calls' = tool_calls + 1
    /\ \E path \in AgentPaths :
         LET r == write_file(path, PlainText, dirs, files, file_operation_callback,
                             file_op_queue)
         IN  /\ dirs' = r.dirs
             /\ files' = r.files
             /\ file_op_queue' = r.queue
             /\ enqueued' = IF r.notified
                            THEN enqueued \o SubSeq(r.queue, Len(file_op_queue) + 1,
                                                    Len(r.queue))
                            ELSE enqueued
             /\ written' = IF r.ok
                           THEN Append(written, RelativeTo(Canon(<<>>, PROJECT_ROOT \o path.comps)))
                           ELSE written
    /\ UNCHANGED <<file_operation_callback, last_call, ops>>
    /\ UNCHANGED <<graphVars, relayVars, activations, stop_observed>>
    /\ UNCHANGED <<logVars, callVars>>
    /\ UNCHANGED <<runVars, fallbackVars>>

\* a Coder that drops the step in flight when the stop signal is set
coder_exit_drops_step ==
    /\ node = "coder"
    /\ coder_pc = "react"
    /\ IF stop_requested
       THEN /\ status' = "DONE"
            /\ node' = "END"
            /\ UNCHANGED <<coder_state, faults>>
       ELSE LET idx == coder_state.current_step_idx + 1
            IN  /\ coder_state' = [created |-> TRUE, current_step_idx |-> idx]
                /\ faults' = faults
                /\ IF idx >= Len(task_plan)
                   THEN status' = "DONE" /\ node' = "END"
                   ELSE status' = status /\ node' = "coder"
    /\ coder_pc' = "enter"
    /\ UNCHANGED <<stop_requested, plan, task_plan, exc>>
    /\ UNCHANGED <<toolVars, relayVars, historyVars>>
    /\ UNCHANGED <<trace, callVars>>
    /\ UNCHANGED <<runVars, fallbackVars>>

\* graph.py:114-137, coder_agent after the sub-call returned or raised: the
\* except clause swallows every exception of the sub-call
coder_exit ==
    /\ node = "coder"
    /\ coder_pc = "react"
    /\ \E outcome \in SubcallOutcomes :
         LET r == safe_invoke(ProviderCall(outcome))
             idx == NextIdx(coder_state.current_step_idx)
         IN  /\ faults' = faults \cup FaultsOf("coder", r)
             /\ coder_state' = CoderState(idx)
             /\ IF DoneAfterAdvance(idx, Len(task_plan))
                THEN /\ status' = "DONE"
                     /\ node' = EdgeAfterCoder("DONE")
                ELSE /\ status' = status
                     /\ node' = EdgeAfterCoder(status)
    /\ coder_pc' = "enter"
    /\ UNCHANGED <<stop_requested, plan, task_plan, exc>>
    /\ UNCHANGED <<toolVars, relayVars, historyVars>>
    /\ UNCHANGED <<trace, callVars>>
    /\ UNCHANGED <<runVars, fallbackVars>>

\* the external controller flips the stop signal
request_stop ==
    /\ run_pc # "returned"
    /\ stop_requested = FALSE
    /\ stop_requested' = TRUE
    /\ UNCHANGED <<node, plan, task_plan, coder_state, status, coder_pc, exc>>
    /\ UNCHANGED <<toolVars, relayVars, historyVars>>
    /\ UNCHANGED <<logVars, callVars>>
    /\ UNCHANGED <<runVars, fallbackVars>>

\* ---------------------------------------------------------------- the relay
\* a queue that hands out its newest item
queue_get_newest(q) == [item |-> q[Len(q)], rest |-> SubSeq(q, 1, Len(q) - 1)]

\* server.py:137, file_op_queue.get_nowait()
queue_get(q) == [item |-> Head(q), rest |-> Tail(q)]

\* a poller that stops as soon as the flag clears
monitor_continues_flag_only(active, q) == active

\* server.py:133, the poller's loop condition
monitor_continues(active, q) == active \/ q # <<>>

\* a failure branch that reports the error but no terminal status
error_messages_no_status == <<ErrorMsg>>

\* server.py:216-224
error_messages == <<ErrorMsg, StatusMsg("error")>>

\* server.py:89-160 and 227, generate: the hook is registered, the poller and
\* the run task are created
generate ==
    /\ run_pc = "idle"
    /\ emitted' = emitted \o <<LogMsg, LogMsg>>
    /\ file_op_queue' = <<>>
    /\ monitoring_active' = TRUE
    /\ file_operation_callback' = "file_op_callback"
    /\ monitor_task' = "running"
    /\ run_pc' = "start"
    /\ UNCHANGED <<dirs, files, last_call, ops, grace>>
    /\ UNCHANGED <<graphVars, historyVars>>
    /\ UNCHANGED <<logVars, callVars>>
    /\ UNCHANGED <<runVars, fallbackVars>>

\* server.py:167-177: the run task starts the worker thread
run_agent_start ==
    /\ run_pc = "start"
    /\ emitted' = Append(emitted, LogMsg)
    /\ node' = "planner"
    /\ run_pc' = "invoke"
    /\ UNCHANGED <<stop_requested, plan, task_plan, coder_state, status, coder_pc, exc>>
    /\ UNCHANGED <<monitoring_active, monitor_task, grace>>
    /\ UNCHANGED <<toolVars, historyVars>>
    /\ UNCHANGED <<logVars, callVars>>
    /\ UNCHANGED <<runVars, fallbackVars>>

\* server.py:173-180: agent.invoke returned; the grace sleep begins
run_agent_returned ==
    /\ run_pc = "invoke"
    /\ node = "END"
    /\ run_pc' = "sleep"
    /\ grace' = GraceTicks
    /\ UNCHANGED <<monitoring_active, monitor_task, emitted>>
    /\ UNCHANGED <<toolVars, graphVars, historyVars>>
    /\ UNCHANGED <<logVars, callVars>>
    /\ UNCHANGED <<runVars, fallbackVars>>

\* server.py:183-193: the sleep is over; status=completed, then the flag
run_agent_completed ==
    /\ run_pc = "sleep"
    /\ grace = 0
    /\ emitted' = Append(emitted, StatusMsg("completed"))
    /\ monitoring_active' = FALSE
    /\ run_pc' = "await_monitor"
    /\ UNCHANGED <<monitor_task, grace>>
    /\ UNCHANGED <<toolVars, graphVars, historyVars>>
    /\ UNCHANGED <<logVars, callVars>>
    /\ UNCHANGED <<runVars, fallbackVars>>

\* server.py:193-198: the poller has finished; the hook is cleared
run_agent_finish ==
    /\ run_pc = "await_monitor"
    /\ monitor_task = "done"
    /\ file_operation_callback' = None
    /\ run_pc' = "returned"
    /\ UNCHANGED <<dirs, files, file_op_queue, last_call, ops>>
    /\ UNCHANGED <<monitoring_active, monitor_task, grace, emitted>>
    /\ UNCHANGED <<graphVars, historyVars>>
    /\ UNCHANGED <<logVars, callVars>>
    /\ UNCHANGED <<runVars, fallbackVars>>

\* server.py:200-211: agent.invoke raised; the flag is cleared
run_agent_raised ==
    /\ run_pc = "invoke"
    /\ node = "raised"
    /\ monitoring_active' = FALSE
    /\ run_pc' = "await_monitor_failed"
    /\ UNCHANGED <<monitor_task, grace, emitted>>
    /\ UNCHANGED <<toolVars, graphVars, historyVars>>
    /\ UNCHANGED <<logVars, callVars>>
    /\ UNCHANGED <<runVars, fallbackVars>>

\* a failure branch that leaves the hook registered
run_agent_failed_keeps_hook ==
    /\ run_pc = "await_monitor_failed"
    /\ monitor_task = "done"
    /\ emitted' = emitted \o error_messages
    /\ run_pc' = "returned"
    /\ UNCHANGED <<dirs, files, file_operation_callback, file_op_queue, last_call, ops>>
    /\ UNCHANGED <<monitoring_active, monitor_task, grace>>
    /\ UNCHANGED <<graphVars, historyVars>>
    /\ UNCHANGED <<logVars, callVars>>
    /\ UNCHANGED <<runVars, fallbackVars>>

\* a failure branch that reports the error without waiting for the poller
run_agent_failed_before_drain ==
    /\ run_pc = "await_monitor_failed"
    /\ file_operation_callback' = None
    /\ emitted' = emitted \o error_messages
    /\ run_pc' = "returned"
    /\ UNCHANGED <<dirs, files, file_op_queue, last_call, ops>>
    /\ UNCHANGED <<monitoring_active, monitor_task, grace>>
    /\ UNCHANGED <<graphVars, historyVars>>
    /\ UNCHANGED <<logVars, callVars>>
    /\ UNCHANGED <<runVars, fallbackVars>>

\* server.py:207-224: the poller has finished; the hook is cleared, then the
\* error and the terminal status go out
run_agent_failed ==
    /\ run_pc = "await_monitor_failed"
    /\ monitor_task = "done"
    /\ file_operation_callback' = None
    /\ emitted' = emitted \o error_messages
    /\ run_pc' = "returned"
    /\ UNCHANGED <<dirs, files, file_op_queue, last_call, ops>>
    /\ UNCHANGED <<monitoring_active, monitor_task, grace>>
    /\ UNCHANGED <<graphVars, historyVars>>
    /\ UNCHANGED <<logVars, callVars>>
    /\ UNCHANGED <<runVars, fallbackVars>>

\* server.py:131-157, queue_monitor: one pass of the loop.  A pass that sleeps
\* takes one poll interval of a grace sleep in progress.
queue_monitor ==
    /\ monitor_task = "running"
    /\ IF ~ monitor_continues(monitoring_active, file_op_queue)
       THEN /\ monitor_task' = "done"
            /\ UNCHANGED <<file_op_queue, emitted, grace>>
       ELSE /\ IF file_op_queue # <<>>
               THEN LET g == queue_get(file_op_queue)
                    IN  /\ file_op_queue' = g.rest
                        /\ emitted' = Append(emitted, FileMsg(g.item))
               ELSE UNCHANGED <<file_op_queue, emitted>>
            /\ grace' = IF grace > 0 THEN grace - 1 ELSE 0
            /\ UNCHANGED monitor_task
    /\ UNCHANGED <<dirs, files, file_operation_callback, last_call, ops>>
    /\ UNCHANGED <<monitoring_active, run_pc>>
    /\ UNCHANGED <<graphVars, historyVars>>
    /\ UNCHANGED <<logVars, callVars>>
    /\ UNCHANGED <<runVars, fallbackVars>>

\* server.py:142: the poller is held up in sio.emit for a poll interval of the
\* grace sleep
poll_delayed ==
    /\ run_pc = "sleep"
    /\ monitor_task = "running"
    /\ grace > 0
    /\ grace' = grace - 1
    /\ UNCHANGED <<monitoring_active, monitor_task, run_pc, emitted>>
    /\ UNCHANGED <<toolVars, graphVars, historyVars>>
    /\ UNCHANGED <<logVars, callVars>>
    /\ UNCHANGED <<runVars, fallbackVars>>

\* ---------------------------------------------------------------- a run
Init ==
    /\ dirs = {<<>>, PROJECT_ROOT}
    /\ files \in {OutsideFiles, OutsideFiles @@ (<<"gp", "a">> :> PlainText)}
    /\ file_operation_callback = None
    /\ file_op_queue = <<>>
    /\ last_call = NoCall
    /\ ops = 0
    /\ mtime = EmptyMap
    /\ RunIdle

Next ==
    \/ generate
    \/ run_agent_start
    \/ planner_agent
    \/ architect_agent
    \/ coder_enter
    \/ react_write(MaxWrites)
    \/ coder_exit
    \/ request_stop
    \/ queue_monitor
    \/ poll_delayed
    \/ run_agent_returned
    \/ run_agent_completed
    \/ run_agent_finish
    \/ run_agent_raised
    \/ run_agent_failed

Spec == Init /\ [][Next]_vars

\* A run on an idle event loop, where the poller is never held up, and whose
\* sub-calls may write once more than the grace sleep has poll intervals.
BurstWrites == GraceTicks + 1

NextBurst ==
    \/ generate
    \/ run_agent_start
    \/ planner_agent
    \/ architect_agent
    \/ coder_enter
    \/ react_write(BurstWrites)
    \/ coder_exit
    \/ request_stop
    \/ queue_monitor
    \/ run_agent_returned
    \/ run_agent_completed
    \/ run_agent_finish
    \/ run_agent_raised
    \/ run_agent_failed

SpecBurst == Init /\ [][NextBurst]_vars

\* the event loop runs its ready tasks and the operating system runs the
\* worker thread; the provider answers every request
FairSpec ==
    /\ Spec
    /\ WF_vars(queue_monitor)
    /\ WF_vars(run_agent_start \/ run_agent_returned \/ run_agent_completed
               \/ run_agent_finish \/ run_agent_raised \/ run_agent_failed)
    /\ WF_vars(planner_agent \/ architect_agent \/ coder_enter \/ coder_exit)

\* ---------------------------------------------------------------- several requests
\* server.py:119-128: the hook generate registers for request r, a closure
\* over that request's queue
HookOf(r) == IF r = 1 THEN "file_op_callback_1" ELSE "file_op_callback_2"

\* the request whose queue the registered hook h puts to
Owner(h) == CHOOSE r \in RunIds : HookOf(r) = h

\* the one file the workers write
RunPaths == { [abs |-> FALSE, comps |-> <<"a">>] }

RunsInit ==
    /\ dirs = {<<>>, PROJECT_ROOT}
    /\ files = OutsideFiles
    /\ file_operation_callback = None
    /\ file_op_queue = <<>>
    /\ last_call = NoCall
    /\ ops = 0
    /\ mtime = EmptyMap
    /\ RunIdle

\* server.py:89-160 and 227, generate for request r: nothing in the handler
\* looks at a run in progress
runs_generate(r) ==
    /\ runs[r].pc = "idle"
    /\ runs' = [runs EXCEPT ![r] = Run("start", TRUE, "running", <<>>, <<LogMsg, LogMsg>>)]
    /\ file_operation_callback' = HookOf(r)
    /\ UNCHANGED <<dirs, files, file_op_queue, last_call, ops>>
    /\ UNCHANGED <<graphVars, relayVars, historyVars, logVars, callVars, fallbackVars>>

\* server.py:167-177: the run task of request r starts its worker thread
runs_start(r) ==
    /\ runs[r].pc = "start"
    /\ runs' = [runs EXCEPT ![r].pc = "invoke",
                            ![r].emitted = Append(@, LogMsg)]
    /\ UNCHANGED <<toolVars, graphVars, relayVars, historyVars, logVars, callVars>>
    /\ UNCHANGED fallbackVars

\* tools.py:41-68 on the worker thread of request r: the hook called is the
\* one in the slot, whichever request registered it
runs_write(r) ==
    /\ runs[r].pc = "invoke"
    /\ tool_calls < MaxWrites
    /\ tool_calls' = tool_calls + 1
    /\ \E path \in RunPaths :
         LET h == file_operation_callback
             q == IF h = None THEN <<>> ELSE runs[Owner(h)].file_op_queue
             w == write_file(path, PlainText, dirs, files, h, q)
         IN  /\ dirs' = w.dirs
             /\ files' = w.files
             /\ runs' = IF h = None
                        THEN runs
                        ELSE [runs EXCEPT ![Owner(h)].file_op_queue = w.queue]
    /\ UNCHANGED <<file_operation_callback, file_op_queue, last_call, ops>>
    /\ UNCHANGED <<graphVars, relayVars, logVars, callVars, fallbackVars>>
    /\ UNCHANGED <<enqueued, written, activations, stop_observed>>

\* server.py:173-190 and 200-205: agent.invoke of request r returned or
\* raised, and the grace sleep is over
runs_invoke_ended(r) ==
    /\ runs[r].pc = "invoke"
    /\ \E outcome \in {"completed", "error"} :
         runs' = [runs EXCEPT
                    ![r].pc = IF outcome = "completed" THEN "await_monitor"
                              ELSE "await_monitor_failed",
                    ![r].emitted = IF outcome = "completed"
                                   THEN Append(@, StatusMsg("completed"))
                                   ELSE @,
                    ![r].monitoring_active = FALSE]
    /\ UNCHANGED <<toolVars, graphVars, relayVars, historyVars, logVars, callVars>>
    /\ UNCHANGED fallbackVars

\* server.py:131-157, one pass of the poller of request r
runs_monitor(r) ==
    /\ runs[r].monitor_task = "running"
    /\ IF ~ monitor_continues(runs[r].monitoring_active, runs[r].file_op_queue)
       THEN runs' = [runs EXCEPT ![r].monitor_task = "done"]
       ELSE /\ runs[r].file_op_queue # <<>>
            /\ LET g == queue_get(runs[r].file_op_queue)
               IN  runs' = [runs EXCEPT ![r].file_op_queue = g.rest,
                                        ![r].emitted = Append(@, FileMsg(g.item))]
    /\ UNCHANGED <<toolVars, graphVars, relayVars, historyVars, logVars, callVars>>
    /\ UNCHANGED fallbackVars

\* server.py:193-196 and 208-224: the poller of request r has ended; the slot
\* is cleared, whichever request's hook is in it
runs_finish(r) ==
    /\ runs[r].pc \in {"await_monitor", "await_monitor_failed"}
    /\ runs[r].monitor_task = "done"
    /\ file_operation_callback' = None
    /\ runs' = [runs EXCEPT
                  ![r].pc = "returned",
                  ![r].emitted = IF runs[r].pc = "await_monitor_failed"
                                 THEN @ \o error_messages
                                 ELSE @]
    /\ UNCHANGED <<dirs, files, file_op_queue, last_call, ops>>
    /\ UNCHANGED <<graphVars, relayVars, historyVars, logVars, callVars, fallbackVars>>

RunsNext ==
    \E r \in RunIds :
        \/ runs_generate(r)
        \/ runs_start(r)
        \/ runs_write(r)
        \/ runs_invoke_ended(r)
        \/ runs_monitor(r)
        \/ runs_finish(r)

SpecRuns == RunsInit /\ [][RunsNext]_vars

\* ---------------------------------------------------------------- the fallback server
\* The fallback server registers no hook: it compares a scan of the project
\* root made before the run with one made after it.  The worker thread is seen
\* through its write_file calls; a client may delete files through the REST
\* endpoint during the run; the clock is what st_mtime is taken from.

\* the files the worker writes and the client deletes
FallbackPaths == { [abs |-> FALSE, comps |-> <<"a">>],
                   [abs |-> FALSE, comps |-> <<"b">>],
                   [abs |-> FALSE, comps |-> <<"c">>] }

\* api/server.py:99-102 and 123-127: relative path -> st_mtime of every file
\* below the project root
scan_files(f, mt) ==
    [rel \in {RelativeTo(x) : x \in {y \in DOMAIN f : PROJECT_ROOT \in Parents(y) \cup {Parent(y)}}}
        |-> mt[PROJECT_ROOT \o rel]]

\* a comparison that reports a file whose modification time did not change
classify_newer_or_same(rel_path, initial, current) ==
    IF rel_path \notin DOMAIN initial THEN "file_create"
    ELSE IF current[rel_path] >= initial[rel_path] THEN "file_update"
    ELSE None

\* api/server.py:130-149: the message type for a file the rescan found
classify(rel_path, initial, current) ==
    IF rel_path \notin DOMAIN initial THEN "file_create"
    ELSE IF current[rel_path] > initial[rel_path] THEN "file_update"
    ELSE None

\* a deletion report for every path the rescan did not find
deleted_files_unseen(initial, current) ==
    {RelativeTo(Locate(safe_path_for_project(path).p)) : path \in FallbackPaths}
        \ DOMAIN current

\* api/server.py:154-155: the snapshot's paths the rescan did not find
deleted_files(initial, current) == {old_file \in DOMAIN initial : old_file \notin DOMAIN current}

\* the orders a directory walk or a dict may give the paths of S in
Orders(S) ==
    {o \in [1..Cardinality(S) -> S] : \A x \in S : \E i \in DOMAIN o : o[i] = x}

IsReported(m) == m.type # None

\* api/server.py:123-151: the messages of the rescan, in the order of the walk
scan_messages(order, initial, current) ==
    SelectSeq([i \in DOMAIN order |-> Msg(classify(order[i], initial, current), "", order[i])],
              IsReported)

\* api/server.py:154-162
delete_messages(order) == [i \in DOMAIN order |-> Msg("file_delete", "", order[i])]

FallbackInit ==
    /\ dirs = {<<>>, PROJECT_ROOT}
    /\ files \in {OutsideFiles,
                  OutsideFiles @@ (<<"gp", "a">> :> <<"s">>),
                  OutsideFiles @@ (<<"gp", "a">> :> <<"s">>) @@ (<<"gp", "b">> :> <<"s">>)}
    /\ mtime = [p \in DOMAIN files |-> 0]
    /\ file_operation_callback = None
    /\ file_op_queue = <<>>
    /\ last_call = NoCall
    /\ ops = 0
    /\ RunIdle

\* api/server.py:71-104 and 187, generate: the snapshot is taken and the run
\* task created
fb_generate ==
    /\ fallback_pc = "idle"
    /\ emitted' = emitted \o <<LogMsg, LogMsg>>
    /\ initial_files' = scan_files(files, mtime)
    /\ fallback_pc' = "start"
    /\ UNCHANGED <<current_files, mtime, clock>>
    /\ UNCHANGED <<monitoring_active, monitor_task, run_pc, grace>>
    /\ UNCHANGED <<toolVars, graphVars, historyVars, logVars, callVars, runVars>>

\* api/server.py:108-116: the run task starts the worker thread
fb_run_start ==
    /\ fallback_pc = "start"
    /\ emitted' = Append(emitted, LogMsg)
    /\ fallback_pc' = "invoke"
    /\ UNCHANGED <<initial_files, current_files, mtime, clock>>
    /\ UNCHANGED <<monitoring_active, monitor_task, run_pc, grace>>
    /\ UNCHANGED <<toolVars, graphVars, historyVars, logVars, callVars, runVars>>

\* tools.py:41-68 on the worker thread, with no hook registered: the file's
\* modification time becomes the time of the write
fb_write ==
    /\ fallback_pc = "invoke"
    /\ tool_calls < MaxWrites
    /\ tool_calls' = tool_calls + 1
    /\ \E path \in FallbackPaths :
         LET w == write_file(path, PlainText, dirs, files, file_operation_callback,
                             file_op_queue)
             p == Locate(safe_path_for_project(path).p)
         IN  /\ dirs' = w.dirs
             /\ files' = w.files
             /\ file_op_queue' = w.queue
             /\ mtime' = [x \in DOMAIN w.files |-> IF x = p THEN clock ELSE mtime[x]]
             /\ written' = Append(written, RelativeTo(p))
    /\ UNCHANGED <<file_operation_callback, last_call, ops>>
    /\ UNCHANGED <<initial_files, current_files, clock, fallback_pc>>
    /\ UNCHANGED <<enqueued, activations, stop_observed>>
    /\ UNCHANGED <<graphVars, relayVars, logVars, callVars, runVars>>

\* api/server.py:299-322, DELETE /api/file/{filepath}, between the snapshot
\* and the rescan
fb_delete ==
    /\ fallback_pc \in {"invoke", "settle"}
    /\ ops < MaxOps
    /\ ops' = ops + 1
    /\ \E path \in FallbackPaths :
         LET r == api_delete_file(path, dirs, files)
         IN  /\ r.status = "200"
             /\ files' = r.files
             /\ mtime' = [x \in DOMAIN r.files |-> mtime[x]]
    /\ UNCHANGED <<dirs, file_operation_callback, file_op_queue, last_call>>
    /\ UNCHANGED <<initial_files, current_files, clock, fallback_pc>>
    /\ UNCHANGED <<graphVars, relayVars, historyVars, logVars, callVars, runVars>>

\* time passes while the worker runs
fb_tick ==
    /\ fallback_pc = "invoke"
    /\ clock < MaxClock
    /\ clock' = clock + 1
    /\ UNCHANGED <<initial_files, current_files, mtime, fallback_pc>>
    /\ UNCHANGED <<toolVars, graphVars, relayVars, historyVars, logVars, callVars, runVars>>

\* api/server.py:116-119: agent.invoke returned; the sleep begins
fb_invoke_returned ==
    /\ fallback_pc = "invoke"
    /\ fallback_pc' = "settle"
    /\ UNCHANGED <<initial_files, current_files, mtime, clock>>
    /\ UNCHANGED <<toolVars, graphVars, relayVars, historyVars, logVars, callVars, runVars>>

\* api/server.py:116 and 173-184: agent.invoke raised
fb_invoke_raised ==
    /\ fallback_pc = "invoke"
    /\ emitted' = emitted \o error_messages
    /\ fallback_pc' = "returned"
    /\ UNCHANGED <<initial_files, current_files, mtime, clock>>
    /\ UNCHANGED <<monitoring_active, monitor_task, run_pc, grace>>
    /\ UNCHANGED <<toolVars, graphVars, historyVars, logVars, callVars, runVars>>

\* api/server.py:121-151: the rescan.  Nothing but a REST delete changes the
\* files while it runs, and a file deleted before the walk reaches it is a
\* file deleted before the rescan, so the walk is one step.
fb_rescan ==
    /\ fallback_pc = "settle"
    /\ LET current == scan_files(files, mtime)
       IN  /\ current_files' = current
           /\ \E order \in Orders(DOMAIN current) :
                emitted' = emitted \o scan_messages(order, initial_files, current)
    /\ fallback_pc' = "scanned"
    /\ UNCHANGED <<initial_files, mtime, clock>>
    /\ UNCHANGED <<monitoring_active, monitor_task, run_pc, grace>>
    /\ UNCHANGED <<toolVars, graphVars, historyVars, logVars, callVars, runVars>>

\* api/server.py:153-171: the deletions, then status=completed
fb_report_deleted ==
    /\ fallback_pc = "scanned"
    /\ \E order \in Orders(deleted_files(initial_files, current_files)) :
         emitted' = (emitted \o delete_messages(order)) \o <<StatusMsg("completed")>>
    /\ fallback_pc' = "returned"
    /\ UNCHANGED <<initial_files, current_files, mtime, clock>>
    /\ UNCHANGED <<monitoring_active, monitor_task, run_pc, grace>>
    /\ UNCHANGED <<toolVars, graphVars, historyVars, logVars, callVars, runVars>>

FallbackNext ==
    \/ fb_generate
    \/ fb_run_start
    \/ fb_write
    \/ fb_delete
    \/ fb_tick
    \/ fb_invoke_returned
    \/ fb_invoke_raised
    \/ fb_rescan
    \/ fb_report_deleted

SpecFallback == FallbackInit /\ [][FallbackNext]_vars

\* ---------------------------------------------------------------- the graph, alone
\* graph.py:163-168: the graph invoked without the server, with no hook or
\* with a raising hook registered
HookInit ==
    /\ dirs = {<<>>, PROJECT_ROOT}
    /\ files \in {OutsideFiles, OutsideFiles @@ (<<"gp", "a">> :> <<"s">>)}
    /\ file_operation_callback \in {None, RaisingHook}
    /\ file_op_queue = <<>>
    /\ last_call = NoCall
    /\ ops = 0
    /\ stop_requested = FALSE
    /\ node = "planner"
    /\ plan = None
    /\ task_plan = <<>>
    /\ coder_state = NoCoderState
    /\ status = None
    /\ coder_pc = "enter"
    /\ exc = None
    /\ monitoring_active = FALSE
    /\ monitor_task = "none"
    /\ run_pc = "idle"
    /\ grace = 0
    /\ emitted = <<>>
    /\ enqueued = <<>>
    /\ written = <<>>
    /\ activations = 0
    /\ stop_observed = FALSE
    /\ tool_calls = 0
    /\ trace = <<>>
    /\ faults = {}
    /\ invoked = NoInvocation
    /\ runs = [r \in RunIds |-> NoRun]
    /\ initial_files = EmptyMap
    /\ current_files = EmptyMap
    /\ mtime = EmptyMap
    /\ clock = 0
    /\ fallback_pc = "idle"

HookNext ==
    \/ planner_agent
    \/ architect_agent
    \/ coder_enter
    \/ react_write(MaxWrites)
    \/ coder_exit

SpecHook == HookInit /\ [][HookNext]_vars

\* ================================================================ properties
\* the canonical form of a path argument and containment in the sandbox,
\* stated on the path itself
CanonicalForm(path) ==
    Canon(<<>>, IF path.abs THEN path.comps ELSE PROJECT_ROOT \o path.comps)

InsideRoot(p) ==
    /\ Len(p) >= Len(PROJECT_ROOT)
    /\ SubSeq(p, 1, Len(PROJECT_ROOT)) = PROJECT_ROOT

Escapes(path) == ~ InsideRoot(CanonicalForm(path))

\* C1: after any sequence of read, write and list calls, nothing outside the
\* sandbox root has been created or modified, and a call whose path has a
\* canonical form outside the root was rejected with the ValueError, not
\* carried out on some path inside the root.
C1_SandboxInvariant ==
    /\ \A p \in DOMAIN files :
         ~ InsideRoot(p) => p \in DOMAIN OutsideFiles /\ files[p] = OutsideFiles[p]
    /\ \A d \in dirs : ~ InsideRoot(d) => d = <<>>
    /\ (last_call.op # "none" /\ Escapes(last_call.path))
         => (~ last_call.ok /\ last_call.err = "ValueError")

C1_Witness ==
    /\ last_call.op = "write"
    /\ last_call.path = [abs |-> TRUE, comps |-> <<"out">>]
    /\ ~ last_call.ok
    /\ <<"gp", "b", "c", "a">> \in DOMAIN files
    /\ files[<<"out">>] = <<"s">>

\* C2: a call whose path escapes the sandbox changes neither the files nor
\* the directories, does not call the hook and enqueues nothing.
C2_EscapeNoSideEffect ==
    [][(ops' = ops + 1 /\ Escapes(last_call'.path))
         => /\ ~ last_call'.ok
            /\ ~ last_call'.notified
            /\ dirs' = dirs
            /\ files' = files
            /\ file_op_queue' = file_op_queue]_vars

C2_Witness ==
    /\ last_call.op = "write"
    /\ last_call.path = [abs |-> FALSE, comps |-> <<"..", "out">>]
    /\ ~ last_call.ok
    /\ file_operation_callback # None
    /\ file_op_queue = <<>>
    /\ <<"gp", "a", "b">> \notin DOMAIN files
    /\ ops = MaxOps

\* C7: a successful write to a path that does not exist enqueues file_create
\* and one to a path that exists enqueues file_update, whatever the content;
\* so no path has an event before its file_create or a second file_create.
C7_CreateVsUpdate ==
    /\ [](\A i, j \in DOMAIN file_op_queue :
            (i < j /\ file_op_queue[i].path = file_op_queue[j].path)
              => file_op_queue[j].kind = "file_update")
    /\ [][(ops' = ops + 1 /\ last_call'.op = "write" /\ last_call'.ok
           /\ file_operation_callback # None)
            => LET t == CanonicalForm(last_call'.path)
               IN  file_op_queue' =
                     Append(file_op_queue,
                            Event(IF t \in dirs \/ t \in DOMAIN files
                                  THEN "file_update" ELSE "file_create",
                                  SubSeq(t, Len(PROJECT_ROOT) + 1, Len(t))))]_vars

C7_Witness ==
    /\ last_call.op = "write"
    /\ last_call.ok
    /\ last_call.same
    /\ Len(file_op_queue) = 2
    /\ file_op_queue[1] = Event("file_create", <<"a", "b">>)
    /\ file_op_queue[2] = Event("file_update", <<"a", "b">>)
\* the (kind, path) pairs of the file messages among msgs, in order
FileEvents(msgs) ==
    LET f == SelectSeq(msgs, IsFileMsg)
    IN  [i \in 1..Len(f) |-> Event(f[i].type, f[i].path)]

Paths(events) == [i \in 1..Len(events) |-> events[i].path]

IsPrefix(s, t) == Len(s) <= Len(t) /\ s = SubSeq(t, 1, Len(s))

Terminals == {i \in DOMAIN emitted : IsTerminal(emitted[i])}

\* C3: at every moment of a run, the file messages emitted so far are a
\* prefix of the events enqueued so far: same kinds, same paths, same order.
C3_EventOrder == IsPrefix(FileEvents(emitted), enqueued)

C3_Witness ==
    /\ node = "coder"
    /\ Len(FileEvents(emitted)) = 2
    /\ Len(file_op_queue) = 1
    /\ enqueued[1].path # enqueued[2].path
    /\ enqueued[3].kind = "file_update"

\* C4: the paths of the file messages are always a prefix of the paths the
\* worker wrote to successfully, once the run task has returned (poller
\* finished, hook cleared) they are exactly those paths, and a run whose
\* worker has finished does get there.
C4_NoLossNoDuplication ==
    /\ [](IsPrefix(Paths(FileEvents(emitted)), written))
    /\ []((run_pc = "returned")
            => (/\ monitor_task = "done"
                /\ file_operation_callback = None
                /\ file_op_queue = <<>>
                /\ Paths(FileEvents(emitted)) = written))
    /\ ((node \in {"END", "raised"}) ~> (run_pc = "returned"))

C4_Witness ==
    /\ run_pc = "returned"
    /\ Len(written) = MaxWrites
    /\ Len(FileEvents(emitted)) = MaxWrites
    /\ IsFileMsg(emitted[Len(emitted)])
    /\ written[1] # written[2]

\* C5: once status=completed has been emitted, no file message follows it.
C5_CompletedIsLast ==
    \A i, j \in DOMAIN emitted :
      (i < j /\ emitted[i] = StatusMsg("completed")) => ~ IsFileMsg(emitted[j])

\* C6: a run never emits two terminal status messages; when its run task has
\* returned it has emitted exactly one, completed if the graph reached END and
\* error if it raised; and every started run gets there.
C6_OneTerminalStatus ==
    /\ [](Cardinality(Terminals) <= 1)
    /\ []((run_pc = "returned") => Cardinality(Terminals) = 1)
    /\ []((run_pc = "returned" /\ node = "END")
           => emitted[CHOOSE i \in Terminals : TRUE] = StatusMsg("completed"))
    /\ []((run_pc = "returned" /\ node = "raised")
           => emitted[CHOOSE i \in Terminals : TRUE] = StatusMsg("error"))
    /\ ((run_pc = "start") ~> (Cardinality(Terminals) = 1))

C6_Witness ==
    /\ run_pc = "returned"
    /\ node = "raised"
    /\ activations = 2
    /\ emitted[Len(emitted)] = StatusMsg("error")
    /\ Len(written) >= 1

\* every step's file can be read when its activation comes
Completable == \A i \in DOMAIN task_plan : read_file(task_plan[i], dirs, files).ok

MaxOf(a, b) == IF a >= b THEN a ELSE b

\* C8 as stated: with N completable steps and no stop signal, the Coder is
\* Done after at most N activations.
C8_DoneWithinN ==
    (status = "DONE" /\ ~ stop_requested /\ Completable)
      => activations <= Len(task_plan)

\* C8 as amended: with N completable steps and no stop signal, no activation
\* raises, and the activation numbered max(N, 1) ends with status DONE and the
\* graph at END.
C8_DoneWithinMaxN1 ==
    (activations >= 1 /\ ~ stop_requested /\ Completable)
      => /\ node # "raised"
         /\ activations <= MaxOf(Len(task_plan), 1)
         /\ (activations = MaxOf(Len(task_plan), 1) /\ coder_pc = "enter")
              => (status = "DONE" /\ node = "END")

C8_Witness ==
    /\ status = "DONE"
    /\ ~ stop_requested
    /\ Completable
    /\ Len(task_plan) = MaxSteps
    /\ activations = MaxSteps
    /\ tool_calls >= 1

\* C9: current_step_idx stays within 0..len(steps) and below the number of
\* Coder activations so far, and every step of the run leaves it alone or adds
\* exactly one to it.
C9_StepIndexMonotone ==
    /\ [](/\ 0 <= coder_state.current_step_idx
          /\ coder_state.current_step_idx <= Len(task_plan)
          /\ coder_state.current_step_idx <= activations)
    /\ [][coder_state'.current_step_idx - coder_state.current_step_idx \in {0, 1}]_vars

C9_Witness ==
    /\ coder_state.current_step_idx = 1
    /\ Len(task_plan) = 2
    /\ coder_pc = "react"
    /\ activations = 2

\* C10: status is DONE exactly when the CoderState's index equals the number
\* of steps or should_stop() was seen True at the start of an activation, and
\* the graph is at END exactly when status is DONE.
C10_DoneIff ==
    /\ (status = "DONE")
         <=> (/\ coder_state.created
              /\ \/ coder_state.current_step_idx = Len(task_plan)
                 \/ stop_observed)
    /\ (node = "END") <=> (status = "DONE")

C10_Witness ==
    /\ status = "DONE"
    /\ node = "END"
    /\ stop_observed
    /\ coder_state.current_step_idx = 1
    /\ Len(task_plan) = 2

\* the index the Coder works at: 0 until the CoderState exists
StepIdx(cs) == IF cs.created THEN cs.current_step_idx ELSE 0

Count(who) == Cardinality({i \in DOMAIN trace : trace[i].who = who})

LastOf(msgs) == msgs[Len(msgs)]

\* C11: a Coder activation that begins with the stop signal set goes straight
\* to DONE and the graph to END: no provider call, no tool call (not even the
\* read of the step's file), no file or directory changed, no event enqueued,
\* and the step index is not advanced.
C11_StopSkipsStep ==
    [][(activations' = activations + 1 /\ stop_requested)
         => /\ status' = "DONE"
            /\ node' = "END"
            /\ coder_pc' = "enter"
            /\ coder_state'.current_step_idx = StepIdx(coder_state)
            /\ trace' = trace
            /\ tool_calls' = tool_calls
            /\ written' = written
            /\ dirs' = dirs
            /\ files' = files
            /\ file_op_queue' = file_op_queue
            /\ enqueued' = enqueued
            /\ exc' = exc]_vars

C11_Witness ==
    /\ stop_observed
    /\ status = "DONE"
    /\ activations = 2
    /\ coder_state.current_step_idx = 1
    /\ Len(task_plan) = 2
    /\ Count("read") = 1

\* C12: every Coder activation that takes a step advances the step index by
\* one, whether the step's work succeeded or raised: neither a failed read of
\* the step's file nor a failed sub-call aborts the run, so every read that
\* was made belongs to a step that is finished or still in progress.
C12_BestEffortSteps ==
    /\ Count("read") = StepIdx(coder_state) + (IF coder_pc = "react" THEN 1 ELSE 0)
    /\ node = "raised" => Count("read") = 0

\* C13: safe_invoke hands back the callee's result when the callee returns;
\* when the callee raises with 'rate limit' somewhere in the text, in any
\* letter case, it raises RateLimitExceeded with that text; when the callee
\* raises with any other text, the original exception comes out unchanged.
C13_Classification ==
    LET call == invoked.call
        result == invoked.result
        MatchesAt(i) ==
            \A k \in 1..Len(RateLimitNeedle) :
                call.text[i + k] \in {RateLimitNeedle[k], UpperCase[RateLimitNeedle[k]]}
        Mentions ==
            \E i \in 0..(Len(call.text) - Len(RateLimitNeedle)) : MatchesAt(i)
    IN  /\ ~ call.raises => (result.raised = None /\ result.value = call.value)
        /\ (call.raises /\ Mentions)
             => (result.raised = "RateLimitExceeded" /\ result.text = call.text)
        /\ (call.raises /\ ~ Mentions)
             => (result.raised = call.type /\ result.text = call.text)

C13_Witness ==
    /\ invoked.call.raises
    /\ invoked.call.type = "APIError"
    /\ invoked.call.text = <<"4", "2", "9", ":", " ", "R", "A", "T", "E", " ", "L", "I", "M", "I", "T", " ", "h", "i", "t">>
    /\ invoked.result.raised = "RateLimitExceeded"

\* C14: a run in which a provider call hit the rate limit, in whatever stage,
\* and nothing else failed ends with a terminal status that tells the rate
\* limit apart from success and from a generic failure: the error status of
\* a RateLimitExceeded.
C14_RateLimitSurfaced ==
    (/\ run_pc = "returned"
     /\ \E f \in faults : f.kind = "rate_limit"
     /\ exc \in {None, "RateLimitExceeded"})
        => /\ LastOf(emitted) = StatusMsg("error")
           /\ exc = "RateLimitExceeded"

\* C15: when the provider returns nothing usable to the Planner or to the
\* Architect, the run aborts there: no later stage runs, no Coder activation,
\* no tool call and no write, status never DONE, and the run ends with the
\* terminal status error.
C15_EmptyResponseState ==
    \A f \in faults :
        f.kind = "empty"
          => /\ node = "raised"
             /\ exc = "ValueError"
             /\ LastOf(trace).who = f.stage
             /\ Count(f.stage) = 1
             /\ f.stage = "planner" => (Count("architect") = 0 /\ plan = None)
             /\ task_plan = <<>>
             /\ activations = 0
             /\ ~ coder_state.created
             /\ tool_calls = 0
             /\ written = <<>>
             /\ enqueued = <<>>
             /\ status # "DONE"
             /\ \A i \in DOMAIN emitted : emitted[i] # StatusMsg("completed")
             /\ run_pc = "returned" => LastOf(emitted) = StatusMsg("error")

C15_EmptyResponseAborts ==
    /\ []C15_EmptyResponseState
    /\ (\E f \in faults : f.kind = "empty")
         ~> (run_pc = "returned" /\ LastOf(emitted) = StatusMsg("error"))

C15_Witness ==
    /\ Fault("architect", "empty") \in faults
    /\ plan = "Plan"
    /\ run_pc = "returned"
    /\ LastOf(emitted) = StatusMsg("error")

\* C16: status is set to DONE once: once DONE it stays DONE, and no Coder
\* activation, no step advance and no provider call or read follows.
C16_DoneOnce ==
    [][status = "DONE"
         => /\ status' = "DONE"
            /\ activations' = activations
            /\ coder_state' = coder_state
            /\ coder_pc' = coder_pc
            /\ node' = "END"
            /\ trace' = trace
            /\ tool_calls' = tool_calls]_vars

C16_Witness ==
    /\ status = "DONE"
    /\ run_pc = "returned"
    /\ activations = 2
    /\ Len(task_plan) = 2
    /\ ~ stop_requested

\* C17: each REST file endpoint accepts a requested path exactly when the
\* tool layer's containment check accepts it.
C17_EndpointsSameCheck ==
    last_call.op \in {"api_read", "api_delete", "api_preview"}
        => ((last_call.err # "403") <=> safe_path_for_project(last_call.path).ok)

\* C19: after a run has ended, completed or failed, the hook slot is empty,
\* and it is emptied only after the poller has terminated with the queue
\* empty; a write made after the run enqueues nothing.
C19_HookClearedAfterDrain ==
    /\ [](run_pc = "returned"
            => /\ file_operation_callback = None
               /\ monitor_task = "done"
               /\ file_op_queue = <<>>
               /\ \A path \in AgentPaths, content \in Contents :
                    LET r == write_file(path, content, dirs, files,
                                        file_operation_callback, file_op_queue)
                    IN  ~ r.notified /\ r.queue = <<>>)
    /\ [][(file_operation_callback # None /\ file_operation_callback' = None)
            => (monitor_task = "done" /\ file_op_queue = <<>>)]_vars

C19_Witness ==
    /\ run_pc = "returned"
    /\ exc = "ValueError"
    /\ enqueued # <<>>
    /\ file_operation_callback = None
    /\ LastOf(emitted) = StatusMsg("error")

\* C20: after a successful write of content c the file and all its parent
\* directories exist and a read of the same path returns exactly c; a read
\* of a path that does not exist returns the empty text.
C20_WriteThenRead ==
    /\ (last_call.op = "write" /\ last_call.ok)
         => LET t == CanonicalForm(last_call.path)
                r == read_file(last_call.path, dirs, files)
            IN  /\ t \in DOMAIN files
                /\ Prefixes(Parent(t)) \subseteq dirs
                /\ r.ok
                /\ r.ret = last_call.content
    /\ (last_call.op = "read" /\ ~ Escapes(last_call.path)
        /\ ~ Exists(CanonicalForm(last_call.path), dirs, files))
         => (last_call.ok /\ last_call.ret = <<>>)

IsSubcall(e) == e.who = "subcall"

\* C21: the Planner is activated once and first, the Architect once and
\* second, the Coder only after both; the sub-calls are made for the steps
\* 0, 1, 2, ... in that order, one per step, none retried or revisited; and a
\* run that reaches DONE without a stop has made one for each of its N steps.
C21_StageOrder ==
    LET sub == SelectSeq(trace, IsSubcall)
    IN  /\ \A i \in DOMAIN trace :
             /\ trace[i].who = "planner" <=> i = 1
             /\ trace[i].who = "architect" <=> i = 2
        /\ node \in {"idle", "planner"} <=> trace = <<>>
        /\ node = "architect" => Len(trace) = 1
        /\ activations >= 1 => Len(trace) >= 2
        /\ \A i \in DOMAIN sub : sub[i].step = i - 1
        /\ (status = "DONE" /\ ~ stop_observed) => Len(sub) = Len(task_plan)

C21_Witness ==
    /\ node = "END"
    /\ Len(task_plan) = 2
    /\ trace = <<Logged("planner", 0), Logged("architect", 0), Logged("read", 0),
                 Logged("subcall", 0), Logged("read", 1), Logged("subcall", 1)>>
    /\ faults # {}

\* C22: with an empty step list the first Coder activation creates the
\* CoderState at index 0 and sets DONE at once: no sub-call, no read, no tool
\* call, no file or directory changed, no second activation, and the run ends
\* with status=completed.
C22_EmptyPlan ==
    (Count("architect") = 1 /\ node # "raised" /\ task_plan = <<>>)
        => /\ Count("subcall") = 0
           /\ Count("read") = 0
           /\ tool_calls = 0
           /\ written = <<>>
           /\ enqueued = <<>>
           /\ dirs = {<<>>, PROJECT_ROOT}
           /\ DOMAIN files \subseteq {<<"out">>, <<"gp", "a">>}
           /\ \A p \in DOMAIN files : files[p] \in {<<"s">>, PlainText}
           /\ activations <= 1
           /\ activations = 1
                => /\ coder_state.created
                   /\ coder_state.current_step_idx = 0
                   /\ status = "DONE"
                   /\ node = "END"
           /\ run_pc = "returned" => LastOf(emitted) = StatusMsg("completed")

C22_Witness ==
    /\ Count("architect") = 1
    /\ task_plan = <<>>
    /\ activations = 1
    /\ status = "DONE"
    /\ run_pc = "returned"
    /\ LastOf(emitted) = StatusMsg("completed")

\* C23: a stop signal set while a step is in flight does not interrupt it: the
\* step ends with the index advanced by one and no abort; once the signal is
\* set no read and no sub-call is started, and the next activation sets DONE
\* without advancing the index.
C23_NonPreemptive ==
    /\ [](coder_pc = "react" => node = "coder")
    /\ [][(stop_requested /\ coder_pc = "react" /\ coder_pc' = "enter")
            => /\ coder_state'.current_step_idx = coder_state.current_step_idx + 1
               /\ node' \in {"coder", "END"}
               /\ exc' = exc]_vars
    /\ [][stop_requested
            => \A i \in (DOMAIN trace') \ (DOMAIN trace) :
                 trace'[i].who \notin {"read", "subcall"}]_vars
    /\ [][(stop_requested /\ activations' = activations + 1)
            => /\ status' = "DONE"
               /\ coder_state'.current_step_idx = StepIdx(coder_state)]_vars

C23_Witness ==
    /\ stop_requested
    /\ ~ stop_observed
    /\ coder_pc = "react"
    /\ coder_state.current_step_idx = 0
    /\ Len(task_plan) = 2
    /\ tool_calls = 1

\* C27: the error message and status=error go out only after the poller has
\* emitted every enqueued event and has ended and the hook is cleared; they
\* are the last two messages, so no file message follows them.
C27_ErrorAfterDrain ==
    \A i \in DOMAIN emitted :
        emitted[i] \in {ErrorMsg, StatusMsg("error")}
          => /\ FileEvents(SubSeq(emitted, 1, i)) = enqueued
             /\ FileEvents(emitted) = enqueued
             /\ file_op_queue = <<>>
             /\ monitor_task = "done"
             /\ file_operation_callback = None
             /\ i >= Len(emitted) - 1
             /\ emitted[i] = StatusMsg("error") <=> i = Len(emitted)

C27_Witness ==
    /\ run_pc = "returned"
    /\ Len(enqueued) = 2
    /\ Len(emitted) >= 4
    /\ IsFileMsg(emitted[Len(emitted) - 2])
    /\ emitted[Len(emitted) - 1] = ErrorMsg
    /\ LastOf(emitted) = StatusMsg("error")

StoppedBeforeStart == stop_requested /\ run_pc = "idle"

\* C28: when the stop signal is set before the run starts, the Planner and
\* the Architect still make their provider requests, one each; the Coder is
\* activated once, sets DONE with the index at 0, and no step is read or
\* executed.
C28_AfterEarlyStop ==
    /\ Count("read") = 0
    /\ Count("subcall") = 0
    /\ tool_calls = 0
    /\ StepIdx(coder_state) = 0
    /\ activations <= 1
    /\ node \in {"architect", "coder", "END"} => Count("planner") = 1
    /\ node \in {"coder", "END"} => Count("architect") = 1
    /\ node = "END" <=> activations = 1
    /\ activations = 1 => (status = "DONE" /\ coder_state.created)

C28_StopOnlyInCoder == [](StoppedBeforeStart => []C28_AfterEarlyStop)

C28_Witness ==
    /\ stop_observed
    /\ activations = 1
    /\ Len(task_plan) = 2
    /\ coder_state.current_step_idx = 0
    /\ Count("planner") = 1
    /\ Count("architect") = 1
    /\ Len(emitted) = 3

\* C29: a run ended by the stop signal ends as a finished run does: status
\* DONE, the graph at END with no exception, no error message, and
\* status=completed as the one status message of the run, with the index
\* below the number of steps.
C29_StopLooksFinished ==
    stop_observed
        => /\ status = "DONE"
           /\ node = "END"
           /\ exc = None
           /\ coder_state.created
           /\ coder_state.current_step_idx < Len(task_plan)
           /\ \A i \in DOMAIN emitted : emitted[i].type # "error"
           /\ \A i \in DOMAIN emitted : IsTerminal(emitted[i]) => emitted[i] = StatusMsg("completed")
           /\ run_pc = "returned" => Cardinality(Terminals) = 1

C29_Witness ==
    /\ stop_observed
    /\ run_pc = "returned"
    /\ coder_state.current_step_idx = 1
    /\ Len(task_plan) = 2
    /\ Cardinality(Terminals) = 1
    /\ \E i \in DOMAIN emitted : emitted[i] = StatusMsg("completed")

\* C30: a write whose hook raises has the outcome of the same write with no
\* hook: the same result (its confirmation when the path is writable), the
\* file holding the new content, nothing enqueued; the Coder stays in its
\* step, and the run raises nothing.
C30_HookFailureContained ==
    /\ [](file_op_queue = <<>> /\ enqueued = <<>>)
    /\ [](node = "raised" => exc # "RuntimeError")
    /\ [][tool_calls' = tool_calls + 1
            => \E path \in AgentPaths :
                 LET r == write_file(path, PlainText, dirs, files,
                                     file_operation_callback, file_op_queue)
                     n == write_file(path, PlainText, dirs, files, None, <<>>)
                     p == Locate(safe_path_for_project(path).p)
                 IN  /\ r.ok = n.ok
                     /\ r.err = n.err
                     /\ r.notified = (n.ok /\ file_operation_callback # None)
                     /\ dirs' = n.dirs
                     /\ files' = n.files
                     /\ n.ok => (p \in DOMAIN files' /\ files'[p] = WriteText(PlainText))
                     /\ written' # written <=> n.ok
                     /\ node' = "coder"
                     /\ coder_pc' = "react"]_vars

C30_Witness ==
    /\ file_operation_callback = RaisingHook
    /\ node = "END"
    /\ status = "DONE"
    /\ Len(task_plan) = 2
    /\ Len(written) = 2
    /\ <<"gp", "a">> \in DOMAIN files
    /\ files[<<"gp", "a">>] = PlainText
    /\ file_op_queue = <<>>

ActiveRuns == {r \in RunIds : runs[r].pc \in {"start", "invoke", "await_monitor",
                                              "await_monitor_failed"}}

\* C24: at any time at most one run is active, a request arriving during a
\* run starts no second worker, and from a run's hook registration to the end
\* of its worker the hook in the slot is that run's.
C24_OneRunAtATime ==
    /\ Cardinality(ActiveRuns) <= 1
    /\ \A r \in RunIds :
         runs[r].pc \in {"start", "invoke"} => file_operation_callback = HookOf(r)

FallbackRels == {RelativeTo(Locate(safe_path_for_project(path).p)) : path \in FallbackPaths}

FileMessagesFor(rel) ==
    {i \in DOMAIN emitted :
        /\ emitted[i].type \in {"file_create", "file_update", "file_delete"}
        /\ emitted[i].path = rel}

RunCompleted ==
    /\ fallback_pc = "returned"
    /\ \E i \in DOMAIN emitted : emitted[i] = StatusMsg("completed")

\* C25: after a completed fallback run, for every path: absent from the
\* snapshot and found by the rescan gives exactly one file_create; in both
\* with a strictly greater modification time, exactly one file_update; in the
\* snapshot and not found by the rescan, exactly one file_delete; in both with
\* the same modification time, no message.
C25_FallbackClassification ==
    RunCompleted
        => \A rel \in FallbackRels :
             LET before == rel \in DOMAIN initial_files
                 after == rel \in DOMAIN current_files
                 types == {emitted[i].type : i \in FileMessagesFor(rel)}
             IN  /\ Cardinality(FileMessagesFor(rel)) = Cardinality(types)
                 /\ (~ before /\ after) => types = {"file_create"}
                 /\ (before /\ after /\ current_files[rel] > initial_files[rel])
                      => types = {"file_update"}
                 /\ (before /\ ~ after) => types = {"file_delete"}
                 /\ (before /\ after /\ current_files[rel] = initial_files[rel])
                      => types = {}

C25_Witness ==
    /\ RunCompleted
    /\ initial_files = (<<"a">> :> 0) @@ (<<"b">> :> 0)
    /\ current_files = (<<"a">> :> 1) @@ (<<"c">> :> 0)
    /\ FileMessagesFor(<<"a">>) # {}
    /\ FileMessagesFor(<<"b">>) # {}
    /\ FileMessagesFor(<<"c">>) # {}

\* C26: a fallback run emits at most one file message for a path however
\* often the path was written, none for a path that was absent before the
\* run, written during it and gone at the rescan, and no message after its
\* one status message.
C26_FallbackOncePerPath ==
    /\ \A rel \in FallbackRels : Cardinality(FileMessagesFor(rel)) <= 1
    /\ \A rel \in FallbackRels :
         (/\ fallback_pc = "returned"
          /\ rel \notin DOMAIN initial_files
          /\ \E i \in DOMAIN written : written[i] = rel
          /\ rel \notin DOMAIN current_files)
            => FileMessagesFor(rel) = {}
    /\ Cardinality(Terminals) <= 1
    /\ \A i \in Terminals : i = Len(emitted)
    /\ fallback_pc = "returned" <=> Terminals # {}

C26_Witness ==
    /\ RunCompleted
    /\ written = <<<<"a">>, <<"b">>, <<"a">>>>
    /\ initial_files = EmptyMap
    /\ current_files = (<<"a">> :> 1)
    /\ Cardinality(FileMessagesFor(<<"a">>)) = 1
    /\ FileMessagesFor(<<"b">>) = {}

====
